---- MODULE Spec2Model ----
(***************************************************************************)
(* scene_plus: the scene store of custom_components/scene_plus.            *)
(*                                                                         *)
(* update_scene_entities captures the runtime state of every entity under  *)
(* the in-process CAPTURE_LOCK and hands _update_scenes_file_sync to an    *)
(* executor thread, which takes the advisory flock on scenes.yaml.lock,    *)
(* loads scenes.yaml, merges the captured values into the entities the     *)
(* scene already declares and replaces the file through a temporary file.  *)
(* get_scene_entities is the lock-free read path.                          *)
(*                                                                         *)
(* Values.  A YAML mapping is a function from string keys to values; a     *)
(* value that is not a mapping is the record [scalar |-> text].  A runtime *)
(* attribute value is [t |-> tag, v |-> sequence of strings] with tag      *)
(* "str", "none", "enum", "tuple", "list" or "obj" (a runtime object with  *)
(* no YAML representation).  A parsed document is [t |-> "list" | "map" |  *)
(* "null", items |-> sequence of entries].  The content of a file is       *)
(* [k |-> kind, doc |-> document, synced |-> flag].                        *)
(***************************************************************************)
EXTENDS Naturals, Sequences, FiniteSets, TLC

\* ------------------------------------------------------------------ bounds
\* Number of update requests one run issues.
NUpdates == 2

Updates == 1..NUpdates

\* ------------------------------------------------------------------ values
EmptyDict == [z \in {} |-> z]

IsDict(x) == "scalar" \notin DOMAIN x

NoneValue == [t |-> "none", v |-> <<>>]

StrValue(s) == [t |-> "str", v |-> <<s>>]

NullDoc == [t |-> "null", items |-> <<>>]

ListDoc(items) == [t |-> "list", items |-> items]

MapDoc == [t |-> "map", items |-> <<>>]

\* scene_utils.py:26  keys never persisted
SCENE_ATTRIBUTE_EXCLUDE == {"device_id", "area_id", "zone_id"}

\* helpers.py:8  Enum -> its value; list, tuple, set -> list; anything else is
\* returned as it is (a runtime object stays a runtime object).  A value
\* whose conversion raises ("raises": a member or a key that cannot be read)
\* gives None (helpers.py:18-20).
safe_item(item) ==
    CASE item.t = "enum" -> [t |-> "str", v |-> item.v]
      [] item.t \in {"list", "tuple"} -> [t |-> "list", v |-> item.v]
      [] item.t = "raises" -> NoneValue
      [] OTHER -> item

\* scene_utils.py:201-212  the snapshot built from hass.states.async_all():
\* None-valued and excluded attributes are left out, the rest goes through
\* safe_item; the state is str(state.state) (a State's state is a str).
capture(states) ==
    [e \in DOMAIN states |->
        [state |-> states[e].state,
         attributes |->
            [k \in {a \in DOMAIN states[e].attributes :
                        /\ states[e].attributes[a] # NoneValue
                        /\ a \notin SCENE_ATTRIBUTE_EXCLUDE}
                |-> safe_item(states[e].attributes[k])]]]

\* ------------------------------------------------------------------ files
Absent == [k |-> "absent", doc |-> NullDoc, synced |-> TRUE]

Garbage == [k |-> "garbage", doc |-> NullDoc, synced |-> TRUE]

\* A file whose content is the serialization of doc; synced says whether the
\* content has reached stable storage.
Text(doc, synced) == [k |-> "text", doc |-> doc, synced |-> synced]

\* A file holding a proper prefix of a serialization (possibly nothing).
Partial == [k |-> "partial", doc |-> NullDoc, synced |-> FALSE]

\* What a crash leaves of a file: content that never reached stable storage
\* survives only as some prefix.
AfterCrash(content) == IF content.synced THEN content ELSE Partial

\* yaml.load of a file's content; "error" stands for any exception of open,
\* read or the parser.
yaml_load(content) ==
    CASE content.k = "text" -> [ok |-> TRUE, err |-> "", doc |-> content.doc]
      [] content.k = "absent" ->
            [ok |-> FALSE, err |-> "FileNotFoundError", doc |-> NullDoc]
      [] OTHER -> [ok |-> FALSE, err |-> "error", doc |-> NullDoc]

\* `x or []`
OrEmptyList(doc) ==
    IF doc.t = "null" \/ (doc.t = "list" /\ doc.items = <<>>)
    THEN ListDoc(<<>>)
    ELSE doc

\* scene_utils.py:95  every exception, FileNotFoundError included, is caught
\* and gives []; exc names the exception that leaves the function, "" when
\* it returns.
load_scenes_file_sync(content) ==
    LET r == yaml_load(content)
    IN  [exc |-> "", doc |-> IF r.ok THEN OrEmptyList(r.doc) ELSE ListDoc(<<>>)]

\* A variant of the loader that lets the exception of open or of the parser
\* leave the function.
load_scenes_file_raising(content) ==
    LET r == yaml_load(content)
    IN  [exc |-> IF r.ok THEN "" ELSE r.err,
         doc |-> IF r.ok THEN OrEmptyList(r.doc) ELSE ListDoc(<<>>)]

\* scene_utils.py:35  the asynchronous twin, used by the lookup.
load_scenes_file(content) ==
    LET r == yaml_load(content)
    IN  [exc |-> "", doc |-> IF r.ok THEN OrEmptyList(r.doc) ELSE ListDoc(<<>>)]

\* yaml.dump raises on a value with no representation.
Representable(doc) ==
    \A i \in 1..Len(doc.items) :
        LET s == doc.items[i]
        IN  (IsDict(s) /\ "entities" \in DOMAIN s /\ IsDict(s.entities)) =>
                \A e \in DOMAIN s.entities :
                    LET x == s.entities[e]
                    IN  (IsDict(x) /\ "attributes" \in DOMAIN x) =>
                            \A k \in DOMAIN x.attributes :
                                x.attributes[k].t # "obj"

\* ------------------------------------------------------------------ lookup
\* The index of the first mapping entry whose id is scene_id, 0 when there
\* is none (scene_utils.py:61-71 and 147-157: entries that are not mappings
\* are skipped).
MatchingIndexes(items, scene_id) ==
    {i \in 1..Len(items) :
        /\ IsDict(items[i])
        /\ "id" \in DOMAIN items[i]
        /\ items[i].id = scene_id}

\* A scan without its `break`: the index of the last such entry.
LastIndex(items, scene_id) ==
    LET hits == MatchingIndexes(items, scene_id)
    IN  IF hits = {} THEN 0 ELSE CHOOSE i \in hits : \A j \in hits : i >= j

FirstIndex(items, scene_id) ==
    LET hits == MatchingIndexes(items, scene_id)
    IN  IF hits = {} THEN 0 ELSE CHOOSE i \in hits : \A j \in hits : i <= j

\* scene_utils.py:51  None is [found |-> FALSE]; an exception of the loader
\* would leave the lookup too.
get_scene_entities(content, scene_id) ==
    LET l == load_scenes_file(content)
        scenes == l.doc
        i == IF scenes.t = "list" THEN FirstIndex(scenes.items, scene_id) ELSE 0
    IN  IF l.exc # "" \/ i = 0
        THEN [exc |-> l.exc, found |-> FALSE, entities |-> EmptyDict]
        ELSE [exc |-> "", found |-> TRUE,
              entities |-> IF "entities" \in DOMAIN scenes.items[i]
                           THEN scenes.items[i].entities
                           ELSE EmptyDict]

\* ------------------------------------------------------------------ merge
\* A variant that merges the captured attributes into the attributes the entry
\* has, key by key, instead of replacing them.
merge_entry_key_by_key(existing_entry, update_data) ==
    LET existing == IF IsDict(existing_entry) THEN existing_entry ELSE EmptyDict
        had == IF "attributes" \in DOMAIN existing
               THEN existing.attributes
               ELSE EmptyDict
    IN  [k \in DOMAIN existing \cup {"attributes", "state"} |->
            CASE k = "state" -> update_data.state
              [] k = "attributes" ->
                    [a \in DOMAIN had \cup DOMAIN update_data.attributes |->
                        IF a \in DOMAIN update_data.attributes
                        THEN update_data.attributes[a]
                        ELSE had[a]]
              [] OTHER -> existing[k]]

\* scene_utils.py:169-186  one entity's entry after the merge.
merge_entry(existing_entry, update_data) ==
    LET existing == IF IsDict(existing_entry) THEN existing_entry ELSE EmptyDict
        nested == "attributes" \in DOMAIN update_data \/ "state" \in DOMAIN update_data
        set == IF nested
               THEN DOMAIN update_data \cap {"attributes", "state"}
               ELSE {"attributes"}
    IN  [k \in DOMAIN existing \cup set \cup {"attributes"} |->
            IF k \in set
            THEN (IF nested THEN update_data[k] ELSE update_data)
            ELSE IF k \in DOMAIN existing THEN existing[k] ELSE EmptyDict]

\* A variant that loops over the captured entities as well.
merge_entities_of_snapshot(entities, state_attributes) ==
    [e \in DOMAIN entities \cup DOMAIN state_attributes |->
        IF e \in DOMAIN state_attributes
        THEN merge_entry(IF e \in DOMAIN entities THEN entities[e] ELSE EmptyDict,
                         state_attributes[e])
        ELSE entities[e]]

\* scene_utils.py:164-186  the loop over the entities the scene declares.
merge_entities(entities, state_attributes) ==
    [e \in DOMAIN entities |->
        IF e \in DOMAIN state_attributes
        THEN merge_entry(entities[e], state_attributes[e])
        ELSE entities[e]]

\* A variant that rebuilds the scene from its id and its entities alone.
with_entities_only(scene, entities) == [id |-> scene.id, entities |-> entities]

\* scene_utils.py:188-189  the scene with its entities replaced.
with_entities(scene, entities) ==
    [k \in DOMAIN scene \cup {"entities"} |->
        IF k = "entities" THEN entities ELSE scene[k]]

\* A variant that appends the merged scene to the list.
append_scene(items, index, scene) == Append(items, scene)

\* scene_utils.py:189  scenes[index] = scene
put_scene(items, index, scene) == [items EXCEPT ![index] = scene]

WorkerResult(kind, success, message) ==
    [kind |-> kind, success |-> success, message |-> message]

NoResult == WorkerResult("none", FALSE, "")

\* scene_utils.py:141-189  what _update_scenes_file_sync decides from the
\* loaded document: an early return, an exception (dict() of an entities
\* value that is not a mapping), or the document to write.
update_scenes(scenes, scene_id, state_attributes) ==
    LET index == IF scenes.t = "list" THEN FirstIndex(scenes.items, scene_id) ELSE 0
        scene == scenes.items[index]
        old == IF "entities" \in DOMAIN scene THEN scene.entities ELSE EmptyDict
        entities == merge_entities(old, state_attributes)
    IN  IF scenes.t # "list"
        THEN [write |-> FALSE, doc |-> scenes,
              res |-> WorkerResult("ret", FALSE,
                        "Invalid scenes data; expected a list of scenes")]
        ELSE IF index = 0
        THEN [write |-> FALSE, doc |-> scenes,
              res |-> WorkerResult("ret", FALSE,
                        "Scene " \o scene_id \o " not found")]
        ELSE IF ~IsDict(old)
        THEN [write |-> FALSE, doc |-> scenes,
              res |-> WorkerResult("raise", FALSE, "TypeError")]
        ELSE [write |-> TRUE,
              doc |-> ListDoc(put_scene(scenes.items, index,
                                        with_entities(scene, entities))),
              res |-> WorkerResult("ret", TRUE,
                        "Scene " \o scene_id \o " updated")]

\* ------------------------------------------------------------------ inputs
\* Entries of the scenes a run starts from.
EntryA ==
    [state |-> "off",
     attributes |-> [brightness |-> StrValue("10"), color_temp |-> StrValue("300")],
     transition |-> StrValue("2")]

EntryB == [state |-> "on", attributes |-> EmptyDict]

Scene1 ==
    [id |-> "s1", name |-> "Evening",
     entities |-> ("light.a" :> EntryA) @@ ("light.b" :> [scalar |-> "on"])]

Scene2 == [id |-> "s2", entities |-> ("light.b" :> EntryB)]

Scene1Again == [id |-> "s1", name |-> "Shadowed", entities |-> ("light.a" :> EntryB)]

SceneNoEntities == [id |-> "s3", name |-> "Empty"]

SceneBadEntities == [id |-> "s4", entities |-> [scalar |-> "null"]]

ScenesDoc ==
    ListDoc(<<[scalar |-> "junk"], Scene1, Scene2, Scene1Again,
              SceneNoEntities, SceneBadEntities>>)

\* scenes.yaml as a run may find it: missing, unparsable, empty, a mapping
\* instead of a list, or a list of scenes.
InitFiles ==
    {Absent, Garbage, Text(NullDoc, TRUE), Text(MapDoc, TRUE),
     Text(ScenesDoc, TRUE)}

SceneIds == {"s1", "s2", "s3", "s4", "missing"}

\* hass.states as a capture may find it.
Hass1 ==
    ("light.a" :>
        [state |-> "on",
         attributes |->
            [brightness |-> StrValue("255"),
             device_id |-> StrValue("dev1"),
             effect |-> NoneValue,
             color_mode |-> [t |-> "enum", v |-> <<"hs">>],
             rgb_color |-> [t |-> "tuple", v |-> <<"1", "2", "3">>]]])
    @@ ("light.c" :> [state |-> "off", attributes |-> EmptyDict])

Hass2 ==
    ("light.a" :> [state |-> "off", attributes |-> [brightness |-> StrValue("0")]])
    @@ ("light.b" :>
        [state |-> "on", attributes |-> [area_id |-> StrValue("kitchen")]])

Hass3 ==
    ("light.b" :>
        [state |-> "on",
         attributes |-> [effect_list |-> [t |-> "obj", v |-> <<"EffectList">>]]])

Hass4 ==
    ("light.a" :>
        [state |-> "on",
         attributes |->
            [brightness |-> StrValue("128"),
             supported_features |-> [t |-> "raises", v |-> <<>>]]])

HassStates == {Hass1, Hass2, Hass3, Hass4}

\* ------------------------------------------------------------------ state
VARIABLES
    fcntl,            \* TRUE when the fcntl module could be imported
    file,             \* content of scenes.yaml
    tmpfiles,         \* tmpfiles[u]: content of the temporary file of u's writer
    flock,            \* update whose executor job holds the advisory lock, 0: none
    ext_lock,         \* TRUE while another process holds the advisory lock
    capture_lock,     \* update holding CAPTURE_LOCK, 0: free
    pc,               \* pc[u]: where update_scene_entities stands
    wpc,              \* wpc[u]: where the executor job _update_scenes_file_sync stands
    scene_id,         \* scene_id[u]: the id the update was called with
    states,           \* states[u]: what hass.states.async_all() returned
    state_attributes, \* state_attributes[u]: the snapshot built from it
    loaded,           \* loaded[u]: the document the job loaded
    scenes,           \* scenes[u]: the job's document, merged in place
    wres,             \* wres[u]: what the job returns or raises
    outcome,          \* outcome[u]: what update_scene_entities returned
    wrote,            \* wrote[u]: the job has replaced scenes.yaml
    lookup            \* the last lookup and its result

vars ==
    <<fcntl, file, tmpfiles, flock, ext_lock, capture_lock, pc, wpc, scene_id,
      states, state_attributes, loaded, scenes, wres, outcome, wrote, lookup>>

locals == <<scene_id, states, state_attributes, loaded, scenes>>

NoOutcome == [kind |-> "none", success |-> FALSE, message |-> ""]

NoLookup == [id |-> "", exc |-> "", found |-> FALSE, entities |-> EmptyDict]

InitWith(files) ==
    /\ fcntl \in BOOLEAN
    /\ file \in files
    /\ tmpfiles = [u \in Updates |-> Absent]
    /\ flock = 0
    /\ ext_lock = FALSE
    /\ capture_lock = 0
    /\ pc = [u \in Updates |-> "idle"]
    /\ wpc = [u \in Updates |-> "none"]
    /\ scene_id = [u \in Updates |-> ""]
    /\ states = [u \in Updates |-> EmptyDict]
    /\ state_attributes = [u \in Updates |-> EmptyDict]
    /\ loaded = [u \in Updates |-> NullDoc]
    /\ scenes = [u \in Updates |-> NullDoc]
    /\ wres = [u \in Updates |-> NoResult]
    /\ outcome = [u \in Updates |-> NoOutcome]
    /\ wrote = [u \in Updates |-> FALSE]
    /\ lookup = NoLookup

\* ------------------------------------------------------------------ writer
\* A variant of the writer that leaves out os.fsync.
WriterNextNoFsync(step) ==
    CASE step = "create" -> "dump"
      [] step = "dump" -> "flush"
      [] step = "flush" -> "close"
      [] step = "close" -> "replace"
      [] step = "replace" -> "unlink"

\* scene_utils.py:115-126  the order of the writer's steps.
WriterNext(step) ==
    CASE step = "create" -> "dump"
      [] step = "dump" -> "flush"
      [] step = "flush" -> "fsync"
      [] step = "fsync" -> "close"
      [] step = "close" -> "replace"
      [] step = "replace" -> "unlink"

WriterSteps == {"create", "dump", "flush", "fsync", "close", "replace"}

\* A variant of the writer that opens scenes.yaml itself for writing.
WriterEffectInPlace(step, tmp, target, doc) ==
    CASE step = "create" -> [tmp |-> tmp, target |-> Partial]
      [] step = "dump" -> [tmp |-> tmp, target |-> Partial]
      [] step = "flush" -> [tmp |-> tmp, target |-> Text(doc, FALSE)]
      [] step = "fsync" -> [tmp |-> tmp, target |-> [target EXCEPT !.synced = TRUE]]
      [] step = "close" -> [tmp |-> tmp, target |-> target]
      [] step = "replace" -> [tmp |-> tmp, target |-> target]

\* The files after one step of the writer: tmp is the temporary file, target
\* scenes.yaml, doc the document being written.
WriterEffect(step, tmp, target, doc) ==
    CASE step = "create" -> [tmp |-> Partial, target |-> target]
      [] step = "dump" -> [tmp |-> Partial, target |-> target]
      [] step = "flush" -> [tmp |-> Text(doc, FALSE), target |-> target]
      [] step = "fsync" -> [tmp |-> [tmp EXCEPT !.synced = TRUE], target |-> target]
      [] step = "close" -> [tmp |-> tmp, target |-> target]
      [] step = "replace" -> [tmp |-> Absent, target |-> tmp]

\* A variant of the writer without the finally that unlinks the temporary file.
WriterOnErrorNoFinally(step) == "unlock"

\* scene_utils.py:127-131  where the writer goes when a step raises: the
\* temporary file is created before the try, the rest runs under its finally.
WriterOnError(step) == IF step = "create" THEN "unlock" ELSE "unlink"

\* ------------------------------------------------------------------ update
Alive == \A u \in Updates : pc[u] # "crashed"

\* A variant in which update_scene_entities does not wait for CAPTURE_LOCK.
capture_lock_ignored == TRUE

\* asyncio.Lock.locked() is False
capture_lock_free == capture_lock = 0

\* services_scene.py:47  handle_update calls update_scene_entities, which
\* reaches `async with CAPTURE_LOCK` (scene_utils.py:200).
Call(u, id) ==
    /\ pc[u] = "idle"
    /\ \A v \in Updates : v < u => pc[v] # "idle"
    /\ pc' = [pc EXCEPT ![u] = "wait"]
    /\ scene_id' = [scene_id EXCEPT ![u] = id]
    /\ UNCHANGED <<fcntl, file, tmpfiles, flock, ext_lock, capture_lock, wpc,
                   states, state_attributes, loaded, scenes, wres, outcome,
                   wrote, lookup>>

\* scene_utils.py:200-220  the lock is taken, the snapshot is built and the
\* job is handed to the executor without the coroutine yielding in between.
\* An asyncio.Lock wakes its waiters in the order they arrived, which is the
\* order of the calls: the snapshots are taken in the order of the updates.
Acquire(u, h) ==
    /\ pc[u] = "wait"
    /\ \A v \in Updates : v < u => pc[v] # "wait"
    /\ capture_lock_free
    /\ capture_lock' = u
    /\ states' = [states EXCEPT ![u] = h]
    /\ state_attributes' = [state_attributes EXCEPT ![u] = capture(h)]
    /\ pc' = [pc EXCEPT ![u] = "await"]
    /\ wpc' = [wpc EXCEPT ![u] = "queued"]
    /\ UNCHANGED <<fcntl, file, tmpfiles, flock, ext_lock, scene_id, loaded,
                   scenes, wres, outcome, wrote, lookup>>

\* The host cancels the task: CancelledError is raised at the await the task
\* is suspended in and `async with` releases CAPTURE_LOCK.  A job that is
\* still queued is cancelled with it; a job that a thread is running runs on.
Cancel(u) ==
    /\ pc[u] \in {"wait", "await"}
    /\ pc' = [pc EXCEPT ![u] = "cancelled"]
    /\ capture_lock' = IF capture_lock = u THEN 0 ELSE capture_lock
    /\ wpc' = [wpc EXCEPT ![u] = IF @ = "queued" THEN "none" ELSE @]
    /\ UNCHANGED <<fcntl, file, tmpfiles, flock, ext_lock, wres, outcome,
                   wrote, lookup, locals>>

\* scene_utils.py:79-84  the job starts: without fcntl the context manager
\* yields at once, with it the lock file is opened.
WorkerStart(u) ==
    /\ wpc[u] = "queued"
    /\ wpc' = [wpc EXCEPT ![u] = IF fcntl THEN "flock" ELSE "load"]
    /\ UNCHANGED <<fcntl, file, tmpfiles, flock, ext_lock, capture_lock, pc,
                   wres, outcome, wrote, lookup, locals>>

\* scene_utils.py:86  flock(LOCK_EX) returns once no other open file
\* description holds the lock.
WorkerFlock(u) ==
    /\ wpc[u] = "flock"
    /\ flock = 0
    /\ ~ext_lock
    /\ flock' = u
    /\ wpc' = [wpc EXCEPT ![u] = "load"]
    /\ UNCHANGED <<fcntl, file, tmpfiles, ext_lock, capture_lock, pc, wres,
                   outcome, wrote, lookup, locals>>

\* scene_utils.py:84-92  open() or flock() raises (a permission failure):
\* nothing is held when the exception leaves the context manager.
LockFail(u) ==
    /\ fcntl
    /\ wpc[u] \in {"queued", "flock"}
    /\ wpc' = [wpc EXCEPT ![u] = "done"]
    /\ wres' = [wres EXCEPT ![u] = WorkerResult("raise", FALSE, "lock: OSError")]
    /\ UNCHANGED <<fcntl, file, tmpfiles, flock, ext_lock, capture_lock, pc,
                   outcome, wrote, lookup, locals>>

\* scene_utils.py:141-189  load, find and merge.
WorkerLoad(u) ==
    /\ wpc[u] = "load"
    /\ LET l == load_scenes_file_sync(file)
           r == IF l.exc = ""
                THEN update_scenes(l.doc, scene_id[u], state_attributes[u])
                ELSE [write |-> FALSE, doc |-> l.doc,
                      res |-> WorkerResult("raise", FALSE, l.exc)]
       IN  /\ loaded' = [loaded EXCEPT ![u] = l.doc]
           /\ scenes' = [scenes EXCEPT ![u] = r.doc]
           /\ wres' = [wres EXCEPT ![u] = IF r.write THEN NoResult ELSE r.res]
           /\ wpc' = [wpc EXCEPT ![u] = IF r.write THEN "create" ELSE "unlock"]
    /\ UNCHANGED <<fcntl, file, tmpfiles, flock, ext_lock, capture_lock, pc,
                   scene_id, states, state_attributes, outcome, wrote, lookup>>

\* scene_utils.py:115-126  one step of the writer; yaml.dump raises
\* RepresenterError at a value it cannot represent, after it has written
\* what precedes the value.
WriterStep(u) ==
    /\ wpc[u] \in WriterSteps
    /\ LET e == WriterEffect(wpc[u], tmpfiles[u], file, scenes[u])
           raises == wpc[u] = "dump" /\ ~Representable(scenes[u])
       IN  /\ tmpfiles' = [tmpfiles EXCEPT ![u] = e.tmp]
           /\ file' = e.target
           /\ wrote' = [wrote EXCEPT ![u] =
                          @ \/ wpc[u] = "replace" \/ e.target # file]
           /\ wres' = [wres EXCEPT ![u] =
                         IF raises
                         THEN WorkerResult("raise", FALSE, "write: RepresenterError")
                         ELSE @]
           /\ wpc' = [wpc EXCEPT ![u] =
                        IF raises THEN WriterOnError(@) ELSE WriterNext(@)]
    /\ UNCHANGED <<fcntl, flock, ext_lock, capture_lock, pc, outcome, lookup,
                   locals>>

\* scene_utils.py:115-127  one step of the writer raises an OSError of the
\* file system (no space, no permission, an I/O error).
WriterFail(u) ==
    /\ wpc[u] \in WriterSteps
    /\ wres' = [wres EXCEPT ![u] = WorkerResult("raise", FALSE, "write: OSError")]
    /\ wpc' = [wpc EXCEPT ![u] = WriterOnError(@)]
    /\ UNCHANGED <<fcntl, file, tmpfiles, flock, ext_lock, capture_lock, pc,
                   outcome, wrote, lookup, locals>>

\* scene_utils.py:128-131 and 192  the finally of the writer: unlink removes
\* the temporary file when it is still there (an OSError is swallowed when it
\* is not); then the job has its return value unless an exception is on its way.
WriterUnlink(u) ==
    /\ wpc[u] = "unlink"
    /\ tmpfiles' = [tmpfiles EXCEPT ![u] = Absent]
    /\ wres' = [wres EXCEPT ![u] =
                  IF @.kind = "none"
                  THEN update_scenes(loaded[u], scene_id[u], state_attributes[u]).res
                  ELSE @]
    /\ wpc' = [wpc EXCEPT ![u] = "unlock"]
    /\ UNCHANGED <<fcntl, file, flock, ext_lock, capture_lock, pc, outcome,
                   wrote, lookup, locals>>

\* A variant of the context manager without its finally: the lock stays held.
release_flock_never(holder, u) == holder

\* scene_utils.py:88-92  LOCK_UN and close: the holder of the advisory lock
\* after update u has left the context manager.
release_flock(holder, u) == IF holder = u THEN 0 ELSE holder

\* scene_utils.py:88-92 and 80-81  the context manager exits, on a return as
\* on an exception.
WorkerUnlock(u) ==
    /\ wpc[u] = "unlock"
    /\ flock' = release_flock(flock, u)
    /\ wpc' = [wpc EXCEPT ![u] = "done"]
    /\ states' = [states EXCEPT ![u] = EmptyDict]
    /\ state_attributes' = [state_attributes EXCEPT ![u] = EmptyDict]
    /\ loaded' = [loaded EXCEPT ![u] = NullDoc]
    /\ scenes' = [scenes EXCEPT ![u] = NullDoc]
    /\ UNCHANGED <<fcntl, file, tmpfiles, ext_lock, capture_lock, pc, scene_id,
                   wres, outcome, wrote, lookup>>

\* The try of update_scene_entities without its except clause: what the job
\* raised leaves the coroutine.
update_outcome_uncaught(res) ==
    [kind |-> res.kind, success |-> res.kind = "ret" /\ res.success,
     message |-> res.message]

\* scene_utils.py:214-230  the dict update_scene_entities returns: the job's
\* (success, message), or success False with str(err) for what it raised.
update_outcome(res) ==
    [kind |-> "ret", success |-> res.kind = "ret" /\ res.success,
     message |-> res.message]

\* A return that leaves CAPTURE_LOCK held.
ReturnHoldingLock(u) ==
    /\ pc[u] = "await"
    /\ wpc[u] = "done"
    /\ outcome' = [outcome EXCEPT ![u] = update_outcome(wres[u])]
    /\ pc' = [pc EXCEPT ![u] = "done"]
    /\ wpc' = [wpc EXCEPT ![u] = "none"]
    /\ wres' = [wres EXCEPT ![u] = NoResult]
    /\ UNCHANGED <<fcntl, file, tmpfiles, flock, ext_lock, capture_lock, wrote,
                   lookup, locals>>

\* scene_utils.py:221-230  the awaited job is done: its return value, or the
\* exception it raised, becomes the outcome and CAPTURE_LOCK is released.
Return(u) ==
    /\ pc[u] = "await"
    /\ wpc[u] = "done"
    /\ outcome' = [outcome EXCEPT ![u] = update_outcome(wres[u])]
    /\ capture_lock' = 0
    /\ pc' = [pc EXCEPT ![u] = "done"]
    /\ wpc' = [wpc EXCEPT ![u] = "none"]
    /\ wres' = [wres EXCEPT ![u] = NoResult]
    /\ UNCHANGED <<fcntl, file, tmpfiles, flock, ext_lock, wrote, lookup, locals>>

\* A lookup that waits for CAPTURE_LOCK and for the lock on scenes.yaml.lock.
LookupUnderLock(id) ==
    /\ Alive
    /\ capture_lock = 0
    /\ flock = 0
    /\ ~ext_lock
    /\ LET r == get_scene_entities(file, id)
       IN  lookup' = [id |-> id, exc |-> r.exc, found |-> r.found,
                      entities |-> r.entities]
    /\ UNCHANGED <<fcntl, file, tmpfiles, flock, ext_lock, capture_lock, pc,
                   wpc, wres, outcome, wrote, locals>>

\* scene_utils.py:51-73  a lookup: no lock is taken.
Lookup(id) ==
    /\ Alive
    /\ LET r == get_scene_entities(file, id)
       IN  lookup' = [id |-> id, exc |-> r.exc, found |-> r.found,
                      entities |-> r.entities]
    /\ UNCHANGED <<fcntl, file, tmpfiles, flock, ext_lock, capture_lock, pc,
                   wpc, wres, outcome, wrote, locals>>

\* Another process that honours scenes.yaml.lock takes and releases it.
ExtLock ==
    /\ Alive
    /\ fcntl
    /\ flock = 0
    /\ ~ext_lock
    /\ ext_lock' = TRUE
    /\ UNCHANGED <<fcntl, file, tmpfiles, flock, capture_lock, pc, wpc, wres,
                   outcome, wrote, lookup, locals>>

ExtUnlock ==
    /\ ext_lock
    /\ ext_lock' = FALSE
    /\ UNCHANGED <<fcntl, file, tmpfiles, flock, capture_lock, pc, wpc, wres,
                   outcome, wrote, lookup, locals>>

\* The machine stops at any instant: every process and every lock is gone,
\* and a file keeps what had reached stable storage.
Crash ==
    /\ Alive
    /\ file' = AfterCrash(file)
    /\ tmpfiles' = [u \in Updates |-> AfterCrash(tmpfiles[u])]
    /\ flock' = 0
    /\ ext_lock' = FALSE
    /\ capture_lock' = 0
    /\ pc' = [u \in Updates |-> "crashed"]
    /\ wpc' = [u \in Updates |-> "none"]
    /\ scene_id' = [u \in Updates |-> ""]
    /\ states' = [u \in Updates |-> EmptyDict]
    /\ state_attributes' = [u \in Updates |-> EmptyDict]
    /\ loaded' = [u \in Updates |-> NullDoc]
    /\ scenes' = [u \in Updates |-> NullDoc]
    /\ wres' = [u \in Updates |-> NoResult]
    /\ outcome' = [u \in Updates |-> NoOutcome]
    /\ wrote' = [u \in Updates |-> FALSE]
    /\ lookup' = NoLookup
    /\ UNCHANGED fcntl

Step(u, ids, hs) ==
    \/ \E id \in ids : Call(u, id)
    \/ \E h \in hs : Acquire(u, h)
    \/ Cancel(u)
    \/ WorkerStart(u)
    \/ WorkerFlock(u)
    \/ LockFail(u)
    \/ WorkerLoad(u)
    \/ WriterStep(u)
    \/ WriterFail(u)
    \/ WriterUnlink(u)
    \/ WorkerUnlock(u)
    \/ Return(u)

\* Concurrent updates of one instance, for a scene the document holds and for
\* one it does not.
Init == InitWith({Text(ScenesDoc, TRUE)})

Next ==
    \/ \E u \in Updates : Step(u, {"s1", "missing"}, {Hass1, Hass2})
    \/ ExtLock
    \/ ExtUnlock
    \/ Crash

Spec == Init /\ [][Next]_vars

\* One update and the lookups, over every shape of scenes.yaml, every scene
\* id and every runtime state.
InitOne == InitWith(InitFiles)

NextOne ==
    \/ Step(1, SceneIds, HassStates)
    \/ \E id \in SceneIds : Lookup(id)
    \/ ExtLock
    \/ ExtUnlock
    \/ Crash

SpecOne == InitOne /\ [][NextOne]_vars

\* Scheduling.  An executor thread that can run does run; a thread blocked in
\* flock(LOCK_EX) gets the lock when it is free again and again; the event
\* loop resumes a coroutine whose awaited job is done; another process that
\* holds the advisory lock releases it.  Nothing obliges the host to call or
\* cancel, a step to fail or the machine to crash.
WorkerRun(u) ==
    \/ WorkerStart(u)
    \/ WorkerLoad(u)
    \/ WriterStep(u)
    \/ WriterUnlink(u)
    \/ WorkerUnlock(u)

Fairness(u) ==
    /\ WF_vars(WorkerRun(u))
    /\ SF_vars(WorkerFlock(u))
    /\ WF_vars(Return(u))

FairSpec == Spec /\ WF_vars(ExtUnlock) /\ \A u \in Updates : Fairness(u)

FairOne == SpecOne /\ WF_vars(ExtUnlock) /\ Fairness(1)

\* Concurrent updates of one scene with one runtime state: what the locks
\* and the scheduling do does not depend on the data.
NextLocks ==
    \/ \E u \in Updates : Step(u, {"s1"}, {Hass1})
    \/ ExtLock
    \/ ExtUnlock
    \/ Crash

SpecLocks == Init /\ [][NextLocks]_vars

\* The same scheduling, the event loop moreover resuming a coroutine that
\* waits for CAPTURE_LOCK once the lock is free.
FairLocks ==
    /\ SpecLocks
    /\ WF_vars(ExtUnlock)
    /\ \A u \in Updates : Fairness(u) /\ WF_vars(Acquire(u, Hass1))

\* ------------------------------------------------------------------ claims
NoCancel == \A u \in Updates : pc[u] # "cancelled"

\* The updates inside _write_scenes_file_sync, that is between the end of
\* their load and merge and the end of their write.
InSection == {u \in Updates : wpc[u] \in WriterSteps \cup {"unlink"}}

\* The document scenes.yaml holds, as a load reads it.
OnDisk == load_scenes_file_sync(file).doc

\* C1: as long as no update is cancelled, the updates write one after another
\* (at most one is between its load and the end of its write), the document on
\* disk when an update replaces it is still the document that update loaded
\* (nothing was written since its load, so no update is lost), and every
\* update that returned success has written.
C1_NoLostUpdates ==
    NoCancel =>
        /\ Cardinality(InSection) <= 1
        /\ \A u \in Updates : wpc[u] \in WriterSteps => OnDisk = loaded[u]
        /\ \A u \in Updates : outcome[u].success => wrote[u]

\* Every update has written, the last one on top of a document an earlier
\* update wrote.
C1_Witness ==
    /\ NoCancel
    /\ \A u \in Updates : wrote[u]
    /\ \E u \in Updates :
          /\ wpc[u] = "unlink"
          /\ loaded[u] # ScenesDoc
          /\ OnDisk # loaded[u]
          /\ \A v \in Updates \ {u} : outcome[v].success

\* C2: at most one update is inside its load-merge-write section, whatever
\* fails or is cancelled, with or without fcntl.
C2_MutualExclusion == Cardinality(InSection) <= 1

\* C3: scenes.yaml changes only by the rename, and then to the complete
\* serialization of the document being written, all of it on stable storage;
\* a crash at any instant leaves the content it had.
C3_AtomicReplace ==
    [][\/ file' = file
       \/ \E u \in Updates :
             /\ wpc[u] = "replace"
             /\ file' = Text(scenes[u], TRUE)]_vars

\* The machine has crashed after a rename and scenes.yaml holds the new document.
C3_Witness ==
    /\ ~Alive
    /\ file.k = "text"
    /\ file.doc # ScenesDoc

WriterErrors == {"write: OSError", "write: RepresenterError"}

Terminated(u) ==
    /\ pc[u] \in {"done", "cancelled", "crashed"}
    /\ wpc[u] \in {"none", "done"}

Written(u) == wpc[u] = "unlink" /\ wrote[u]

\* The place in the document of the scene update u is for.
Target(u) == FirstIndex(loaded[u].items, scene_id[u])

EntitiesOf(scene) ==
    IF "entities" \in DOMAIN scene THEN scene.entities ELSE EmptyDict

\* The entities of that scene as the job loaded them and as they are on disk.
Before(u) == EntitiesOf(loaded[u].items[Target(u)])

After(u) == EntitiesOf(OnDisk.items[Target(u)])

\* C6: after an update the record holds no entity it did not hold before,
\* whatever the snapshot holds.
C6_NoEntityAdded ==
    \A u \in Updates : Written(u) => DOMAIN After(u) \subseteq DOMAIN Before(u)

\* An update has written a record for which the snapshot held an entity the
\* record does not declare.
C6_Witness ==
    \E u \in Updates :
        /\ Written(u)
        /\ DOMAIN state_attributes[u] \ DOMAIN Before(u) # {}
        /\ DOMAIN state_attributes[u] \cap DOMAIN Before(u) # {}

\* The runtime attributes of entity e when update u captured them.
Runtime(u, e) == states[u][e].attributes

\* C7 as stated: an entity without captured data keeps its entry; otherwise
\* its attributes are the runtime attributes without the excluded keys and
\* its state the captured state.
C7_AsStated ==
    \A u \in Updates : Written(u) =>
        \A e \in DOMAIN Before(u) :
            IF e \notin DOMAIN states[u]
            THEN After(u)[e] = Before(u)[e]
            ELSE /\ After(u)[e].state = states[u][e].state
                 /\ DOMAIN After(u)[e].attributes =
                        DOMAIN Runtime(u, e) \ SCENE_ATTRIBUTE_EXCLUDE
                 /\ \A k \in DOMAIN After(u)[e].attributes :
                        After(u)[e].attributes[k] = Runtime(u, e)[k]

\* C7 amended: the attributes are the runtime attributes without the excluded
\* keys and without the keys whose value is None, each value being an Enum's
\* value instead of the Enum, a list instead of a tuple or a set, and null
\* instead of a value whose conversion raises.
C7_MergedEntries ==
    \A u \in Updates : Written(u) =>
        \A e \in DOMAIN Before(u) :
            IF e \notin DOMAIN states[u]
            THEN After(u)[e] = Before(u)[e]
            ELSE /\ After(u)[e].state = states[u][e].state
                 /\ DOMAIN After(u)[e].attributes =
                        {k \in DOMAIN Runtime(u, e) :
                            /\ k \notin SCENE_ATTRIBUTE_EXCLUDE
                            /\ Runtime(u, e)[k].t # "none"}
                 /\ \A k \in DOMAIN After(u)[e].attributes :
                        /\ After(u)[e].attributes[k].v = Runtime(u, e)[k].v
                        /\ After(u)[e].attributes[k].t =
                              CASE Runtime(u, e)[k].t = "enum" -> "str"
                                [] Runtime(u, e)[k].t = "tuple" -> "list"
                                [] Runtime(u, e)[k].t = "raises" -> "none"
                                [] OTHER -> Runtime(u, e)[k].t

\* An update has written a record of two entities, one with captured data (an
\* excluded key and a None among its attributes) and one without.
C7_Witness ==
    \E u \in Updates :
        /\ Written(u)
        /\ \E e \in DOMAIN Before(u) :
              /\ e \in DOMAIN states[u]
              /\ DOMAIN Runtime(u, e) \cap SCENE_ATTRIBUTE_EXCLUDE # {}
              /\ \E k \in DOMAIN Runtime(u, e) : Runtime(u, e)[k] = NoneValue
              /\ After(u)[e] # Before(u)[e]
        /\ \E e \in DOMAIN Before(u) : e \notin DOMAIN states[u]

\* C8: a successful update keeps the number and the order of the records,
\* every other record, and every field of its record but `entities`.
C8_Frame ==
    \A u \in Updates : Written(u) =>
        /\ OnDisk.t = "list"
        /\ Len(OnDisk.items) = Len(loaded[u].items)
        /\ \A j \in 1..Len(loaded[u].items) :
              j # Target(u) => OnDisk.items[j] = loaded[u].items[j]
        /\ DOMAIN OnDisk.items[Target(u)] =
              DOMAIN loaded[u].items[Target(u)] \cup {"entities"}
        /\ \A k \in DOMAIN loaded[u].items[Target(u)] \ {"entities"} :
              OnDisk.items[Target(u)][k] = loaded[u].items[Target(u)][k]

\* An update has changed the entities of a record that has a field of its
\* own, in a document with other records and an entry that is no mapping.
C8_Witness ==
    \E u \in Updates :
        /\ Written(u)
        /\ "name" \in DOMAIN loaded[u].items[Target(u)]
        /\ After(u) # Before(u)
        /\ Len(loaded[u].items) > 2
        /\ \E j \in 1..Len(loaded[u].items) : ~IsDict(loaded[u].items[j])

\* C9: the job of an update that returns success = false has not changed
\* scenes.yaml: no step of it wrote to the file or renamed onto it.
C9_FailedUpdateWritesNothing ==
    \A u \in Updates :
        (outcome[u].kind = "ret" /\ ~outcome[u].success) => ~wrote[u]

\* An update has returned the failure of its writer.
C9_Witness ==
    \E u \in Updates :
        /\ outcome[u].kind = "ret"
        /\ ~outcome[u].success
        /\ outcome[u].message = "write: OSError"
        /\ file = Text(ScenesDoc, TRUE)

\* No record of the file has the id: the file is missing or unreadable, the
\* document is no list, or no mapping entry of the list has the id.
NoRecord(content, id) ==
    \/ content.k # "text"
    \/ content.doc.t # "list"
    \/ \A i \in 1..Len(content.doc.items) :
          \/ ~IsDict(content.doc.items[i])
          \/ "id" \notin DOMAIN content.doc.items[i]
          \/ content.doc.items[i].id # id

\* C10: a lookup of an id no record has returns None and raises nothing.
C10_LookupNotFound ==
    (lookup.id # "" /\ NoRecord(file, lookup.id)) =>
        (lookup.exc = "" /\ ~lookup.found)

\* A lookup of an id no record has, in a list with an entry that is no mapping.
C10_Witness ==
    /\ lookup.id = "missing"
    /\ ~lookup.found
    /\ file.k = "text"
    /\ file.doc.t = "list"
    /\ \E i \in 1..Len(file.doc.items) : ~IsDict(file.doc.items[i])

\* The messages of the failures an update can meet: the document is not a
\* list, the scene is absent, the lock file cannot be opened or locked, the
\* merge raises, the write raises.
FailureMessages(id) ==
    { "Invalid scenes data; expected a list of scenes",
      "Scene " \o id \o " not found",
      "lock: OSError", "TypeError", "write: OSError",
      "write: RepresenterError" }

\* C11: an update that has ended without being cancelled has returned an
\* outcome, never raised: either success with the message naming the scene
\* it updated, after its document was written, or success = false with the
\* message of the failure met while locking, loading, merging or writing.
C11_FailuresAreOutcomes ==
    \A u \in Updates :
        pc[u] = "done" =>
            /\ outcome[u].kind = "ret"
            /\ outcome[u].success =>
                   /\ outcome[u].message = "Scene " \o scene_id[u] \o " updated"
                   /\ wrote[u]
            /\ ~outcome[u].success =>
                   /\ outcome[u].message \in FailureMessages(scene_id[u])
                   /\ ~wrote[u]

\* One update ended with the failure of the lock file, another reading with
\* the failure of the merge, returned as outcomes.
C11_Witness ==
    \E u \in Updates :
        /\ pc[u] = "done"
        /\ outcome[u].kind = "ret"
        /\ ~outcome[u].success
        /\ outcome[u].message \in {"lock: OSError", "TypeError"}

\* C12: an update of an unparsable scenes.yaml ends with a failed outcome
\* that is not the outcome of an absent file or of an absent scene id
\* ("Scene <id> not found").
C12_CorruptDocumentReported ==
    \A u \in Updates :
        (pc[u] = "done" /\ file = Garbage) =>
            /\ ~outcome[u].success
            /\ outcome[u].message # "Scene " \o scene_id[u] \o " not found"

\* What a lookup of id gives on the complete document doc: the entities of
\* the record with that id that no other such record precedes, or nothing.
WholeAnswer(doc, id) ==
    IF doc.t = "list" /\ \E i \in 1..Len(doc.items) :
                             ~NoRecord(Text(ListDoc(<<doc.items[i]>>), TRUE), id)
    THEN LET i == CHOOSE i \in 1..Len(doc.items) :
                      /\ ~NoRecord(Text(ListDoc(<<doc.items[i]>>), TRUE), id)
                      /\ NoRecord(Text(ListDoc(SubSeq(doc.items, 1, i - 1)), TRUE), id)
         IN  [id |-> id, exc |-> "", found |-> TRUE,
              entities |-> EntitiesOf(doc.items[i])]
    ELSE [id |-> id, exc |-> "", found |-> FALSE, entities |-> EmptyDict]

\* The complete documents scenes.yaml has held: the one the instance started
\* with (only the list of scenes is ever rewritten) and, when the file is a
\* complete text, the one it holds now.
WholeDocs ==
    {IF file \in InitFiles \ {Text(ScenesDoc, TRUE)} THEN file.doc ELSE ScenesDoc}
        \cup (IF file.k = "text" THEN {file.doc} ELSE {})

\* C13: whatever locks are held, a lookup of any id can run; and the answer
\* of a lookup is the answer on the complete document from before the update
\* or on the complete document the update wrote, never one read from a
\* partly written file.
C13_LookupUnlockedWhole ==
    /\ Alive => \A id \in SceneIds : ENABLED Lookup(id)
    /\ lookup.id # "" =>
           \E doc \in WholeDocs : lookup = WholeAnswer(doc, lookup.id)

\* A lookup has returned the entities the update has just renamed into
\* place, while that update still holds CAPTURE_LOCK and the file lock.
C13_Witness ==
    /\ Written(1)
    /\ capture_lock = 1
    /\ flock = 1
    /\ After(1) # Before(1)
    /\ lookup.id = scene_id[1]
    /\ lookup.found
    /\ lookup.entities = After(1)

\* C14: whenever an update's job holds the lock on scenes.yaml.lock, that
\* update holds CAPTURE_LOCK, a cancelled update included.
C14_FlockInsideCaptureLock ==
    \A u \in Updates : flock = u => capture_lock = u

\* C15: a failure of open or flock on scenes.yaml.lock aborts no update: no
\* job ends by raising it and no outcome reports it; an update of a scene
\* the document holds ends with success.
C15_LockErrorDegrades ==
    \A u \in Updates :
        /\ wres[u].message # "lock: OSError"
        /\ (pc[u] = "done" /\ outcome[u].message = "lock: OSError"
                /\ ~NoRecord(file, scene_id[u])) => outcome[u].success

\* C16: in the attributes an update writes for an entity of its snapshot no
\* key maps to null, and no update fails because a value has no
\* representation: the value is dropped and the rest is written.
C16_NoNullAttribute ==
    \A u \in Updates :
        /\ Written(u) =>
               \A e \in DOMAIN After(u) \cap DOMAIN state_attributes[u] :
                   \A k \in DOMAIN After(u)[e].attributes :
                       After(u)[e].attributes[k] # NoneValue
        /\ wres[u].message # "write: RepresenterError"
        /\ outcome[u].message # "write: RepresenterError"

\* Entry j of items is a mapping with this id and no entry before it is.
IsFirst(items, j, id) ==
    /\ j \in MatchingIndexes(items, id)
    /\ \A k \in 1..(j - 1) : k \notin MatchingIndexes(items, id)

\* C17: among several records with the requested id, an update changes no
\* entry of the document but the first mapping with that id (entries before
\* it that are no mappings are passed over, later records with the id stay
\* as they were), and a lookup that finds the id returns the entities of the
\* first such record of the document it read.
C17_FirstMatchOnly ==
    /\ \A u \in Updates : Written(u) =>
           \A j \in 1..Len(loaded[u].items) :
               OnDisk.items[j] # loaded[u].items[j] =>
                   IsFirst(loaded[u].items, j, scene_id[u])
    /\ lookup.found =>
           \E doc \in WholeDocs : \E j \in 1..Len(doc.items) :
               /\ IsFirst(doc.items, j, lookup.id)
               /\ lookup.entities = EntitiesOf(doc.items[j])

\* The document holds two records with id s1 after an entry that is no
\* mapping; an update has changed the first and a lookup has returned its
\* new entities, which are not those of the second.
C17_Witness ==
    \E u \in Updates :
        /\ Written(u)
        /\ scene_id[u] = "s1"
        /\ ~IsDict(loaded[u].items[1])
        /\ MatchingIndexes(loaded[u].items, "s1") = {2, 4}
        /\ OnDisk.items[2] # loaded[u].items[2]
        /\ OnDisk.items[4] = loaded[u].items[4]
        /\ lookup.id = "s1"
        /\ lookup.found
        /\ lookup.entities = OnDisk.items[2].entities
        /\ lookup.entities # OnDisk.items[4].entities

\* C18: the snapshots are taken under CAPTURE_LOCK, in the order of the
\* updates, and an update that renames its document over scenes.yaml took its
\* snapshot after every update that has already written: a snapshot older
\* than a written one is never written over it.
C18_SnapshotOrder ==
    [][\A u \in Updates :
           (wpc[u] = "replace" /\ wpc'[u] = "unlink" /\ wrote'[u]) =>
               \A v \in Updates \ {u} : wrote[v] => v < u]_vars

\* C19: once an update has written, running the update again on the document
\* now on disk, for the same scene id and with the same snapshot, writes that
\* very document; and the scene holds the same entity ids after the update
\* as before.
C19_Idempotent ==
    \A u \in Updates : Written(u) =>
        LET again == update_scenes(OnDisk, scene_id[u], state_attributes[u])
        IN  /\ again.write
            /\ again.res.success
            /\ again.doc = OnDisk
            /\ DOMAIN After(u) = DOMAIN Before(u)

\* An update has changed the entry of an entity of its snapshot, in a scene
\* that holds another entity as well.
C19_Witness ==
    \E u \in Updates :
        /\ Written(u)
        /\ OnDisk # loaded[u]
        /\ \E e \in DOMAIN Before(u) \cap DOMAIN state_attributes[u] :
               After(u)[e] # Before(u)[e]
        /\ DOMAIN Before(u) \ DOMAIN state_attributes[u] # {}
        /\ DOMAIN state_attributes[u] \ DOMAIN Before(u) # {}

\* A step of the scheduling: a job runs or gets the file lock, a coroutine
\* takes CAPTURE_LOCK or returns, the other process unlocks.
Progress ==
    \/ ExtUnlock
    \/ \E u \in Updates :
          \/ WorkerRun(u)
          \/ WorkerFlock(u)
          \/ Return(u)
          \/ Acquire(u, Hass1)

\* Update u is called and has not ended, or its job has not.
Pending(u) ==
    \/ pc[u] \in {"wait", "await"}
    \/ wpc[u] \notin {"none", "done"}

\* C20: the file lock is only held by the job of an update that took
\* CAPTURE_LOCK before, so no update waits for CAPTURE_LOCK holding it; no
\* state is a deadlock (while an update or a job is pending a step of the
\* scheduling is possible); and every update that was called ends (from some
\* moment on none is waiting for CAPTURE_LOCK or for its job, for good): it
\* has returned its outcome, unless the host cancelled it or the machine
\* stopped.
C20_NoDeadlock ==
    /\ [](\A u \in Updates : pc[u] \in {"idle", "wait"} => flock # u)
    /\ []((\E u \in Updates : Pending(u)) => ENABLED Progress)
    /\ [](\A u \in Updates : pc[u] = "done" => outcome[u].kind = "ret")
    /\ <>[](\A u \in Updates : pc[u] \notin {"wait", "await"})

\* Update 2 waits for CAPTURE_LOCK while the job of update 1 waits for the
\* file lock that another process holds.
C20_Witness ==
    /\ pc[1] = "await"
    /\ capture_lock = 1
    /\ wpc[1] = "flock"
    /\ ext_lock
    /\ pc[2] = "wait"

====
